---- MODULE Spec2Model ----
(***************************************************************************)
(* A model of the table endpoint of the REST-over-database gateway         *)
(* (src/app.py): the per-table request handler, the filter translator,     *)
(* ordering and pagination resolution.                                     *)
(*                                                                         *)
(* Strings are sequences of one-character strings, so that suffix tests,   *)
(* slicing, lower-casing and integer parsing are computed, not assumed.    *)
(***************************************************************************)
EXTENDS Integers, Sequences, FiniteSets, TLC

VARIABLES table, rows, seq, request, response, executed, call

vars == <<table, rows, seq, request, response, executed, call>>

(***************************************************************************)
(* Bounds of the model.                                                    *)
(***************************************************************************)
MaxLen == 3       \* longest limit string explored by the pure cast_limit check
MaxRows == 2      \* most rows a table holds
MaxSeq == 2       \* last value the serial sequence of items.id hands out
MaxKeys == 2      \* most parameters of a query string explored by the pure build_filters check

\* Python's None where a string is expected: a value that is no string.
None == <<"None">>

(***************************************************************************)
(* Strings.                                                                *)
(***************************************************************************)
DigitVal == ("0" :> 0) @@ ("1" :> 1) @@ ("2" :> 2) @@ ("3" :> 3) @@ ("4" :> 4)
            @@ ("5" :> 5) @@ ("6" :> 6) @@ ("7" :> 7) @@ ("8" :> 8) @@ ("9" :> 9)

IsDigit(c) == c \in DOMAIN DigitVal

LowerChar(c) ==
    CASE c = "A" -> "a" [] c = "S" -> "s" [] c = "C" -> "c"
      [] c = "D" -> "d" [] c = "E" -> "e" [] OTHER -> c

\* str.lower()
Lower(s) == [i \in 1..Len(s) |-> LowerChar(s[i])]

\* str.endswith(suf)
EndsWith(s, suf) ==
    /\ Len(s) >= Len(suf)
    /\ SubSeq(s, Len(s) - Len(suf) + 1, Len(s)) = suf

\* s[:-k]
DropLast(s, k) == SubSeq(s, 1, Len(s) - k)

RECURSIVE StripLeft(_)
StripLeft(s) == IF s # <<>> /\ Head(s) = " " THEN StripLeft(Tail(s)) ELSE s

RECURSIVE StripRight(_)
StripRight(s) ==
    IF s # <<>> /\ s[Len(s)] = " " THEN StripRight(DropLast(s, 1)) ELSE s

Strip(s) == StripRight(StripLeft(s))

\* The digits of an integer literal: digits, single underscores between digits.
DigitsOk(s) ==
    /\ s # <<>>
    /\ \A i \in 1..Len(s) : IsDigit(s[i]) \/ s[i] = "_"
    /\ IsDigit(s[1]) /\ IsDigit(s[Len(s)])
    /\ \A i \in 1..(Len(s) - 1) : ~(s[i] = "_" /\ s[i + 1] = "_")

RECURSIVE DigitsValue(_)
DigitsValue(s) ==
    IF s = <<>> THEN 0
    ELSE IF s[Len(s)] = "_" THEN DigitsValue(DropLast(s, 1))
    ELSE 10 * DigitsValue(DropLast(s, 1)) + DigitVal[s[Len(s)]]

\* int(s) of a str: [ok |-> FALSE] stands for ValueError.
ParseInt(s) ==
    LET t == Strip(s)
        signed == t # <<>> /\ Head(t) \in {"-", "+"}
        body == IF signed THEN Tail(t) ELSE t
    IN  IF ~DigitsOk(body) THEN [ok |-> FALSE, val |-> 0]
        ELSE [ok |-> TRUE,
              val |-> IF signed /\ Head(t) = "-" THEN 0 - DigitsValue(body)
                      ELSE DigitsValue(body)]

Min(a, b) == IF a <= b THEN a ELSE b
Max(a, b) == IF a >= b THEN a ELSE b

(***************************************************************************)
(* Pagination resolution.                                                  *)
(***************************************************************************)
\* cast_limit(limit, default, max_limit); limit is None or a string.
cast_limit(limit, default, max_limit) ==
    IF limit = None THEN Max(1, Min(default, max_limit))
    ELSE LET p == ParseInt(limit)
         IN  IF p.ok THEN Max(1, Min(p.val, max_limit))
             ELSE default          \* except Exception: return default

(***************************************************************************)
(* Schema catalog: the reflected tables and the configuration.             *)
(***************************************************************************)
Col_id == <<"i", "d">>
Col_a == <<"a">>
Col_b == <<"b">>
Col_n == <<"n">>
Col_w_lte == <<"w", "_", "l", "t", "e">>      \* a column literally named w_lte
Col_k_gte == <<"k", "_", "g", "t", "e">>      \* a key column literally named k_gte

\* meta.tables: name -> columns (tbl.c) and primary-key columns, in order.
\* "serial" and "required" are the schema's column defaults: a serial column
\* takes the next sequence value, a required column has no default and is
\* NOT NULL, every other column defaults to 0.
Tables ==
    [items |-> [cols |-> <<Col_id, Col_n>>, pk |-> <<Col_id>>,
                serial |-> {Col_id}, required |-> {}],
     links |-> [cols |-> <<Col_a, Col_b, Col_n>>, pk |-> <<Col_a, Col_b>>,
                serial |-> {}, required |-> {Col_a, Col_b}],
     logs  |-> [cols |-> <<Col_a, Col_n>>, pk |-> <<>>,
                serial |-> {}, required |-> {}],
     ref   |-> [cols |-> <<Col_id, Col_n>>, pk |-> <<Col_id>>,
                serial |-> {Col_id}, required |-> {}],
     odd   |-> [cols |-> <<Col_k_gte, Col_n, Col_w_lte>>, pk |-> <<Col_k_gte, Col_n>>,
                serial |-> {}, required |-> {Col_k_gte, Col_n}]]

\* cfg["api"]["read_only_tables"]
READ_ONLY == {"ref"}

\* cfg["api"]["default_limit"] and cfg["api"]["max_limit"], when not configured
DEFAULT_LIMIT == 100
MAX_LIMIT == 1000

Range(s) == {s[i] : i \in 1..Len(s)}

\* tbl.c: the column names of a table
ColumnNames(tbl) == Range(tbl.cols)

\* pk_columns(tbl): the primary-key columns, in primary-key order
pk_columns(tbl) == tbl.pk

\* A faulty variant: the read-only check left out.
IsReadOnly_Never(name) == FALSE

IsReadOnly(name) == name \in READ_ONLY

\* args.get(key): None when the key is absent
ArgGet(args, key) == IF key \in DOMAIN args THEN args[key] ELSE None

(***************************************************************************)
(* Filter translator.                                                      *)
(***************************************************************************)
K_limit == <<"l", "i", "m", "i", "t">>
K_offset == <<"o", "f", "f", "s", "e", "t">>
K_order_by == <<"o", "r", "d", "e", "r", "_", "b", "y">>
K_order_dir == <<"o", "r", "d", "e", "r", "_", "d", "i", "r">>

S_gte == <<"_", "g", "t", "e">>
S_lte == <<"_", "l", "t", "e">>
S_like == <<"_", "l", "i", "k", "e">>

\* skip = {"limit", "offset", "order_by", "order_dir"}
skip == {K_limit, K_offset, K_order_by, K_order_dir}

Clause(col, op, val) == [col |-> col, op |-> op, val |-> val]

\* and_(*conds): a conjunction of clauses (none at all when conds is empty)
And(conds) == [kind |-> "and", conds |-> conds]
NoFilter == [kind |-> "None"]

\* A faulty variant: a suffixed key whose stripped name is no column falls through to
\* the equality test on the whole key.
KeyClauses_FallThrough(tbl, key, val) ==
    IF key \in skip \/ key \in Range(pk_columns(tbl)) THEN {}
    ELSE IF EndsWith(key, S_gte) /\ DropLast(key, 4) \in ColumnNames(tbl)
         THEN {Clause(DropLast(key, 4), ">=", val)}
    ELSE IF EndsWith(key, S_lte) /\ DropLast(key, 4) \in ColumnNames(tbl)
         THEN {Clause(DropLast(key, 4), "<=", val)}
    ELSE IF EndsWith(key, S_like) /\ DropLast(key, 5) \in ColumnNames(tbl)
         THEN {Clause(DropLast(key, 5), "ilike", val)}
    ELSE IF key \in ColumnNames(tbl) THEN {Clause(key, "==", val)}
    ELSE {}

\* One turn of the loop over args.items(): the clauses the key adds.
KeyClauses(tbl, key, val) ==
    IF key \in skip \/ key \in Range(pk_columns(tbl)) THEN {}
    ELSE IF EndsWith(key, S_gte)
         THEN (IF DropLast(key, 4) \in ColumnNames(tbl)
               THEN {Clause(DropLast(key, 4), ">=", val)} ELSE {})
    ELSE IF EndsWith(key, S_lte)
         THEN (IF DropLast(key, 4) \in ColumnNames(tbl)
               THEN {Clause(DropLast(key, 4), "<=", val)} ELSE {})
    ELSE IF EndsWith(key, S_like)
         THEN (IF DropLast(key, 5) \in ColumnNames(tbl)
               THEN {Clause(DropLast(key, 5), "ilike", val)} ELSE {})
    ELSE IF key \in ColumnNames(tbl) THEN {Clause(key, "==", val)}
    ELSE {}

\* all(c.name in args for c in pk_columns(tbl))
AllPkPresent(tbl, args) == \A c \in Range(pk_columns(tbl)) : c \in DOMAIN args

\* A faulty variant: the lookup compares the first key column only.
PkEquality_FirstOnly(tbl, args) ==
    {Clause(pk_columns(tbl)[i], "==", args[pk_columns(tbl)[i]]) :
        i \in 1..Min(1, Len(pk_columns(tbl)))}

\* [table.c[c.name] == args.get(c.name) for c in pk_columns(table)]
PkEquality(tbl, args) == {Clause(c, "==", args[c]) : c \in Range(pk_columns(tbl))}

build_filters(tbl, args) ==
    IF AllPkPresent(tbl, args) THEN And(PkEquality(tbl, args))
    ELSE LET conds == UNION {KeyClauses(tbl, key, args[key]) : key \in DOMAIN args}
         IN  IF conds # {} THEN And(conds) ELSE NoFilter

(***************************************************************************)
(* Ordering resolution.                                                    *)
(***************************************************************************)
W_desc == <<"d", "e", "s", "c">>
W_asc == <<"a", "s", "c">>

NoOrder == [kind |-> "None"]

\* A faulty variant: ascending only for "asc", descending for everything else.
parse_order_AscOnly(tbl, args) ==
    LET ob == ArgGet(args, K_order_by)
    IN  IF ob = None \/ ob = <<>> \/ ob \notin ColumnNames(tbl) THEN NoOrder
        ELSE LET direction ==
                     Lower(IF K_order_dir \in DOMAIN args THEN args[K_order_dir]
                           ELSE W_desc)
             IN  [kind |-> IF direction = W_asc THEN "asc" ELSE "desc", col |-> ob]

parse_order(tbl, args) ==
    LET ob == ArgGet(args, K_order_by)
    IN  IF ob = None \/ ob = <<>> \/ ob \notin ColumnNames(tbl) THEN NoOrder
        ELSE LET direction ==
                     Lower(IF K_order_dir \in DOMAIN args THEN args[K_order_dir]
                           ELSE W_desc)
             IN  [kind |-> IF direction = W_desc THEN "desc" ELSE "asc", col |-> ob]

(***************************************************************************)
(* Request bodies and primary-key parameters.                              *)
(***************************************************************************)
\* A request body is no JSON at all ("none"), a JSON object with its fields,
\* or another JSON value: an array of len elements stands for them (the
\* empty one is falsy in Python, as are 0, "", false and null).
EmptyObject == [kind |-> "object", fields |-> <<>>]

Truthy(json) ==
    CASE json.kind = "none" -> FALSE
      [] json.kind = "object" -> DOMAIN json.fields # {}
      [] OTHER -> json.len > 0

\* request.get_json(silent=True) or {}
GetJsonOrEmpty(body) == IF Truthy(body) THEN body ELSE EmptyObject

\* payload_known_columns(tbl, payload); [ok |-> FALSE] stands for the
\* AttributeError of .items() on a value that is no dict.
payload_known_columns(tbl, payload) ==
    LET p == IF Truthy(payload) THEN payload ELSE EmptyObject
    IN  IF p.kind # "object" THEN [ok |-> FALSE, fields |-> <<>>]
        ELSE [ok |-> TRUE,
              fields |-> [k \in DOMAIN p.fields \cap ColumnNames(tbl) |-> p.fields[k]]]

\* A faulty variant: the last missing key column is named, not the first.
require_pk_params_Last(tbl, args) ==
    LET pk == pk_columns(tbl)
        missing == {i \in 1..Len(pk) : ArgGet(args, pk[i]) = None}
    IN  IF missing # {}
        THEN [ok |-> FALSE,
              col |-> pk[CHOOSE i \in missing : \A j \in missing : i >= j],
              data |-> <<>>]
        ELSE [ok |-> TRUE, col |-> <<>>, data |-> [c \in Range(pk) |-> args[c]]]

\* require_pk_params(tbl, args): the first primary-key column, in primary-key
\* order, that args lacks aborts with 400; else the primary-key values.
require_pk_params(tbl, args) ==
    LET pk == pk_columns(tbl)
        missing == {i \in 1..Len(pk) : ArgGet(args, pk[i]) = None}
    IN  IF missing # {}
        THEN [ok |-> FALSE,
              col |-> pk[CHOOSE i \in missing : \A j \in missing : i <= j],
              data |-> <<>>]
        ELSE [ok |-> TRUE, col |-> <<>>, data |-> [c \in Range(pk) |-> args[c]]]

(***************************************************************************)
(* Query executor: what the database does with the statements the handler  *)
(* builds.  A table's rows are a bag (a table without a primary key can    *)
(* hold equal rows); every column is an integer column.                    *)
(***************************************************************************)
RECURSIVE BagSum(_, _)
BagSum(b, S) ==
    IF S = {} THEN 0
    ELSE LET x == CHOOSE x \in S : TRUE IN b[x] + BagSum(b, S \ {x})

Size(b) == BagSum(b, DOMAIN b)

SubBag(b, S) == [r \in S |-> b[r]]

AddRow(b, r) ==
    [x \in DOMAIN b \cup {r} |-> IF x \in DOMAIN b
                                 THEN (IF x = r THEN b[x] + 1 ELSE b[x]) ELSE 1]

RemoveOne(b, r) ==
    [x \in {y \in DOMAIN b : y # r \/ b[y] > 1} |-> IF x = r THEN b[x] - 1 ELSE b[x]]

RECURSIVE Perms(_)
Perms(b) ==
    IF DOMAIN b = {} THEN {<<>>}
    ELSE UNION {{<<r>> \o p : p \in Perms(RemoveOne(b, r))} : r \in DOMAIN b}

RECURSIVE IntToStr(_)
IntToStr(n) ==
    IF n < 0 THEN <<"-">> \o IntToStr(0 - n)
    ELSE IF n < 10 THEN <<CHOOSE c \in DOMAIN DigitVal : DigitVal[c] = n>>
    ELSE IntToStr(n \div 10) \o IntToStr(n % 10)

\* s ILIKE p: % matches any run of characters, _ any one character.
RECURSIVE Like(_, _)
Like(s, p) ==
    IF p = <<>> THEN s = <<>>
    ELSE IF Head(p) = "%" THEN Like(s, Tail(p)) \/ (s # <<>> /\ Like(Tail(s), p))
    ELSE /\ s # <<>>
         /\ Head(p) = "_" \/ LowerChar(Head(s)) = LowerChar(Head(p))
         /\ Like(Tail(s), Tail(p))

\* The clause holds of the row; the string value is bound to the integer column.
Matches(row, cl) ==
    CASE cl.op = "==" -> row[cl.col] = ParseInt(cl.val).val
      [] cl.op = ">=" -> row[cl.col] >= ParseInt(cl.val).val
      [] cl.op = "<=" -> row[cl.col] <= ParseInt(cl.val).val
      [] OTHER -> Like(IntToStr(row[cl.col]), cl.val)

\* A value that is no integer, compared with an integer column, fails the statement.
DataError(where) ==
    /\ where.kind = "and"
    /\ \E cl \in where.conds : cl.op # "ilike" /\ ~ParseInt(cl.val).ok

\* The rows the WHERE clause keeps; an empty conjunction renders no WHERE at all.
Matching(rs, where) ==
    IF where.kind = "None" THEN rs
    ELSE SubBag(rs, {r \in DOMAIN rs : \A cl \in where.conds : Matches(r, cl)})

Sorted(p, order) ==
    \/ order.kind = "None"
    \/ order.kind = "asc" /\ \A i, j \in 1..Len(p) : i < j => p[i][order.col] <= p[j][order.col]
    \/ order.kind = "desc" /\ \A i, j \in 1..Len(p) : i < j => p[i][order.col] >= p[j][order.col]

\* SELECT ... WHERE ... ORDER BY ... LIMIT ... OFFSET: every result the
\* database may return (the order of unordered or tied rows is its choice).
Select(rs, where, order, limit, offset) ==
    {SubSeq(p, offset + 1, Min(Len(p), offset + limit)) :
        p \in {q \in Perms(Matching(rs, where)) : Sorted(q, order)}}

\* The primary key admits the rows: no two of them agree on every key column.
PkUnique(tbl, rs) ==
    \/ pk_columns(tbl) = <<>>
    \/ /\ \A r \in DOMAIN rs : rs[r] = 1
       /\ \A r1, r2 \in DOMAIN rs :
            (\A c \in Range(pk_columns(tbl)) : r1[c] = r2[c]) => r1 = r2

\* INSERT ... VALUES payload: the row with the schema's defaults filled in.
InsertedRow(tbl, payload, sq) ==
    [c \in ColumnNames(tbl) |->
        IF c \in DOMAIN payload THEN payload[c]
        ELSE IF c \in tbl.serial THEN sq ELSE 0]

UsesSequence(tbl, payload) == \E c \in tbl.serial : c \notin DOMAIN payload

\* UPDATE ... SET payload applied to one row
UpdatedRow(row, payload) ==
    [c \in DOMAIN row |-> IF c \in DOMAIN payload THEN payload[c] ELSE row[c]]

\* UPDATE ... WHERE: the table after the update
UpdateRows(rs, where, payload) ==
    LET hit == DOMAIN Matching(rs, where)
        new == (DOMAIN rs \ hit) \cup {UpdatedRow(r, payload) : r \in hit}
    IN  [x \in new |->
            (IF x \in DOMAIN rs \ hit THEN rs[x] ELSE 0)
            + BagSum(rs, {r \in hit : UpdatedRow(r, payload) = x})]

\* DELETE ... WHERE: the table after the delete
DeleteRows(rs, where) == SubBag(rs, DOMAIN rs \ DOMAIN Matching(rs, where))

(***************************************************************************)
(* Request handler (one per table).  Each operator gives the set of        *)
(* outcomes of a request: the response, the table's rows and the sequence  *)
(* afterwards, and whether a statement was executed against the database.  *)
(***************************************************************************)
Outcome(resp, rs, sq, exec) ==
    [response |-> resp, rows |-> rs, seq |-> sq, executed |-> exec]

\* abort(status, description=...) and the top-level handler's 500
Error(status, message) == [status |-> status, kind |-> "error", message |-> message]

RowResponse(status, row) == [status |-> status, kind |-> "row", row |-> row]

ListResponse(data, limit, offset) ==
    [status |-> 200, kind |-> "list", data |-> data, limit |-> limit, offset |-> offset]

NotFound == Error(404, <<"Not found">>)
EmptyPayload == Error(400, <<"Empty payload or unknown fields">>)
ReadOnlyError(name) == Error(405, <<"Table is read-only", name>>)
MissingPk(col) == Error(400, <<"Missing primary key parameter", col>>)

\* A faulty variant: the WHERE clause compares one key column only.
PkdEquality_OneColumn(pkd) ==
    {Clause(k, "==", pkd[k]) :
        k \in IF DOMAIN pkd = {} THEN {} ELSE {CHOOSE c \in DOMAIN pkd : TRUE}}

\* [table.c[k] == v for k, v in pkd.items()]
PkdEquality(pkd) == {Clause(k, "==", pkd[k]) : k \in DOMAIN pkd}

\* GET with every primary-key column among the parameters: one row or 404
GetByPk(tbl, rs, sq, args) ==
    LET where == And(PkEquality(tbl, args))
    IN  IF DataError(where) THEN {Outcome(Error(500, <<"DataError">>), rs, sq, TRUE)}
        ELSE LET found == Select(rs, where, NoOrder, 1, 0)
             IN  {IF res = <<>> THEN Outcome(NotFound, rs, sq, TRUE)
                  ELSE Outcome(RowResponse(200, res[1]), rs, sq, TRUE) : res \in found}

\* GET otherwise: the filtered, ordered, paginated list
GetList(tbl, rs, sq, args) ==
    LET limit == cast_limit(ArgGet(args, K_limit), DEFAULT_LIMIT, MAX_LIMIT)
        off == IF K_offset \in DOMAIN args THEN ParseInt(args[K_offset])
               ELSE [ok |-> TRUE, val |-> 0]
        where == build_filters(tbl, args)
        order == parse_order(tbl, args)
    IN  IF ~off.ok THEN {Outcome(Error(500, <<"ValueError">>), rs, sq, FALSE)}
        ELSE IF DataError(where) THEN {Outcome(Error(500, <<"DataError">>), rs, sq, TRUE)}
        ELSE IF off.val < 0
        THEN \* the database rejects a negative OFFSET, or reads it as none
             {Outcome(Error(500, <<"DataError">>), rs, sq, TRUE)}
             \cup {Outcome(ListResponse(data, limit, off.val), rs, sq, TRUE) :
                     data \in Select(rs, where, order, limit, 0)}
        ELSE {Outcome(ListResponse(data, limit, off.val), rs, sq, TRUE) :
                data \in Select(rs, where, order, limit, off.val)}

HandleGet(name, rs, sq, args) ==
    IF AllPkPresent(Tables[name], args) THEN GetByPk(Tables[name], rs, sq, args)
    ELSE GetList(Tables[name], rs, sq, args)

\* insert(table).values(**payload).returning(table), in one transaction
Insert(tbl, rs, sq, payload) ==
    LET row == InsertedRow(tbl, payload, sq)
        sq2 == IF UsesSequence(tbl, payload) THEN sq + 1 ELSE sq
    IN  IF (\E c \in tbl.required : c \notin DOMAIN payload)
           \/ ~PkUnique(tbl, AddRow(rs, row))
        THEN {Outcome(Error(500, <<"IntegrityError">>), rs, sq2, TRUE)}
        ELSE {Outcome(RowResponse(201, row), AddRow(rs, row), sq2, TRUE)}

HandlePost(name, rs, sq, args, body) ==
    IF IsReadOnly(name) THEN {Outcome(ReadOnlyError(name), rs, sq, FALSE)}
    ELSE LET payload == payload_known_columns(Tables[name], GetJsonOrEmpty(body))
         IN  IF ~payload.ok THEN {Outcome(Error(500, <<"AttributeError">>), rs, sq, FALSE)}
             ELSE IF DOMAIN payload.fields = {} THEN {Outcome(EmptyPayload, rs, sq, FALSE)}
             ELSE Insert(Tables[name], rs, sq, payload.fields)

\* update(table).where(where).values(**payload).returning(table), in one transaction
Update(tbl, rs, sq, pkd, payload) ==
    LET where == And(PkdEquality(pkd))
        after == UpdateRows(rs, where, payload)
        hit == DOMAIN Matching(rs, where)
    IN  IF DataError(where) THEN {Outcome(Error(500, <<"DataError">>), rs, sq, TRUE)}
        ELSE IF ~PkUnique(tbl, after)
        THEN {Outcome(Error(500, <<"IntegrityError">>), rs, sq, TRUE)}
        ELSE IF hit = {} THEN {Outcome(NotFound, rs, sq, TRUE)}
        ELSE {Outcome(RowResponse(200, UpdatedRow(r, payload)), after, sq, TRUE) : r \in hit}

HandlePutPatch(name, rs, sq, args, body) ==
    IF IsReadOnly(name) THEN {Outcome(ReadOnlyError(name), rs, sq, FALSE)}
    ELSE LET pkd == require_pk_params(Tables[name], args)
             payload == payload_known_columns(Tables[name], GetJsonOrEmpty(body))
         IN  IF ~pkd.ok THEN {Outcome(MissingPk(pkd.col), rs, sq, FALSE)}
             ELSE IF ~payload.ok
             THEN {Outcome(Error(500, <<"AttributeError">>), rs, sq, FALSE)}
             ELSE IF DOMAIN payload.fields = {} THEN {Outcome(EmptyPayload, rs, sq, FALSE)}
             ELSE Update(Tables[name], rs, sq, pkd.data, payload.fields)

\* delete(table).where(where).returning(*table.primary_key.columns), in one transaction
Delete(tbl, rs, sq, pkd) ==
    LET where == And(PkdEquality(pkd))
        done == IF DOMAIN Matching(rs, where) = {} THEN Outcome(NotFound, rs, sq, TRUE)
                ELSE Outcome([status |-> 200, kind |-> "deleted"],
                             DeleteRows(rs, where), sq, TRUE)
    IN  IF DataError(where) THEN {Outcome(Error(500, <<"DataError">>), rs, sq, TRUE)}
        ELSE IF pk_columns(tbl) = <<>>
        THEN \* RETURNING of no column: the statement may return no result to
             \* read, .first() then raises and the transaction rolls back
             {done, Outcome(Error(500, <<"ResourceClosedError">>), rs, sq, TRUE)}
        ELSE {done}

HandleDelete(name, rs, sq, args) ==
    IF IsReadOnly(name) THEN {Outcome(ReadOnlyError(name), rs, sq, FALSE)}
    ELSE LET pkd == require_pk_params(Tables[name], args)
         IN  IF ~pkd.ok THEN {Outcome(MissingPk(pkd.col), rs, sq, FALSE)}
             ELSE Delete(Tables[name], rs, sq, pkd.data)

\* handler(): dispatch on request.method
handler(name, rs, sq, req) ==
    CASE req.method = "GET" -> HandleGet(name, rs, sq, req.args)
      [] req.method = "POST" -> HandlePost(name, rs, sq, req.args, req.body)
      [] req.method \in {"PUT", "PATCH"} -> HandlePutPatch(name, rs, sq, req.args, req.body)
      [] req.method = "DELETE" -> HandleDelete(name, rs, sq, req.args)
      [] OTHER -> {Outcome(Error(405, <<"Method not allowed">>), rs, sq, FALSE)}

(***************************************************************************)
(* The requests explored.                                                  *)
(***************************************************************************)
K_z == <<"z">>                  \* a name that is no column of any table
Vals == {1, 2}                  \* column values a body carries
ArgVals == {<<"1">>, <<"2">>}   \* query-parameter values

HandlerTables == {"items", "links", "logs", "ref"}

\* Every mapping from some of the keys to the values
Maps(keys, vals) == UNION {[S -> vals] : S \in SUBSET keys}

GetArgs(name) == Maps(Range(Tables[name].pk) \cup {Col_n, K_z}, ArgVals)
WriteArgs(name) == Maps(Range(Tables[name].pk) \cup {K_z}, ArgVals)
PostArgs == Maps({K_z}, {<<"1">>})

NonObjects == {[kind |-> "none"], [kind |-> "array", len |-> 0], [kind |-> "array", len |-> 1]}
Object(fields) == [kind |-> "object", fields |-> fields]

PostBodies(name) ==
    NonObjects \cup {Object(f) : f \in Maps(ColumnNames(Tables[name]), Vals)}
               \cup {Object(f @@ (K_z :> 1)) : f \in Maps({Col_n}, Vals)}
\* Updates set n, an unknown field, or the table's first column.
UpdateBodies(name) ==
    NonObjects \cup {Object(f) : f \in Maps({Col_n, K_z}, {1})}
               \cup {Object(Tables[name].cols[1] :> 2)}

\* The tables a database can hold: at most MaxRows rows, the primary key kept.
ColumnValues(tbl, c) ==
    IF c \in tbl.required THEN Vals
    ELSE IF c \in tbl.serial THEN Vals \cup 1..MaxSeq
    ELSE {0} \cup Vals

RowUniverse(name) ==
    {r \in [ColumnNames(Tables[name]) -> {0} \cup Vals \cup 1..MaxSeq] :
        \A c \in DOMAIN r : r[c] \in ColumnValues(Tables[name], c)}

RECURSIVE BagsUpTo(_, _)
BagsUpTo(name, n) ==
    IF n = 0 THEN {<<>>}
    ELSE LET smaller == BagsUpTo(name, n - 1)
         IN  smaller \cup {AddRow(b, r) : b \in smaller, r \in RowUniverse(name)}

BagsOf(name) == {b \in BagsUpTo(name, MaxRows) : PkUnique(Tables[name], b)}

NoRequest == [method |-> "none"]
NoResponse == [status |-> 0, kind |-> "none"]
NoCall == [fn |-> "none"]

Request(method, args, body) == [method |-> method, args |-> args, body |-> body]
NoBody == [kind |-> "none"]

Idle == request = NoRequest

(***************************************************************************)
(* The gateway serving one table: requests arrive one at a time.           *)
(***************************************************************************)
Init ==
    /\ table \in HandlerTables
    /\ rows \in BagsOf(table)
    /\ seq = 1
    /\ request = NoRequest
    /\ response = NoResponse
    /\ executed = FALSE
    /\ call = NoCall

\* The handler serves the request: one of its outcomes happens.
Serve(req) ==
    /\ Idle
    /\ \E o \in handler(table, rows, seq, req) :
         /\ Size(o.rows) <= MaxRows
         /\ o.seq <= MaxSeq + 1
         /\ request' = req
         /\ response' = o.response
         /\ rows' = o.rows
         /\ seq' = o.seq
         /\ executed' = o.executed
    /\ UNCHANGED <<table, call>>

Get == \E args \in GetArgs(table) : Serve(Request("GET", args, NoBody))

Post == \E args \in PostArgs, body \in PostBodies(table) : Serve(Request("POST", args, body))

Put == \E args \in WriteArgs(table), body \in UpdateBodies(table) :
          Serve(Request("PUT", args, body))

Patch == \E args \in WriteArgs(table), body \in UpdateBodies(table) :
          Serve(Request("PATCH", args, body))

DeleteReq == \E args \in WriteArgs(table) : Serve(Request("DELETE", args, NoBody))

\* Flask routes HEAD to the view of a GET rule; the handler knows no HEAD.
HeadReq == Serve(Request("HEAD", <<>>, NoBody))

\* The response is sent and the request context is torn down.
Respond ==
    /\ ~Idle
    /\ request' = NoRequest
    /\ response' = NoResponse
    /\ executed' = FALSE
    /\ UNCHANGED <<table, rows, seq, call>>

Next == Get \/ Post \/ Put \/ Patch \/ DeleteReq \/ HeadReq \/ Respond

Spec == Init /\ [][Next]_vars

(***************************************************************************)
(* Claims about the request handler, checked under Spec.                   *)
(***************************************************************************)
WriteMethods == {"POST", "PUT", "PATCH", "DELETE"}

PkOf(name) == Range(Tables[name].pk)

\* The row's key is the one the parameters give.
HasKey(name, row, args) == \A c \in PkOf(name) : IntToStr(row[c]) = args[c]

C1_Step ==
    table \in READ_ONLY =>
       /\ rows' = rows
       /\ request'.method \in WriteMethods =>
             response'.status = 405 /\ executed' = FALSE

\* C1: on a read-only table every POST, PUT, PATCH and DELETE is answered 405
\* without touching the database, whatever its parameters and body, and no
\* request ever changes the table's rows.
C1_ReadOnlyTablesRejectWrites == [][C1_Step]_vars

\* A DELETE naming an existing row of a read-only table was refused.
C1_Witness ==
    /\ table \in READ_ONLY
    /\ request.method = "DELETE"
    /\ PkOf(table) \subseteq DOMAIN request.args
    /\ \E r \in DOMAIN rows : HasKey(table, r, request.args)
    /\ response.status = 405

\* C4: on a table with a composite primary key, a GET giving some but not all
\* key columns returns the list envelope, and every row returned agrees with
\* each key column given.
C4_PartialKeyReadIsFiltered ==
    (/\ request.method = "GET"
     /\ Len(Tables[table].pk) > 1
     /\ ~(PkOf(table) \subseteq DOMAIN request.args))
    => /\ response.kind = "list"
       /\ \A i \in 1..Len(response.data) :
            \A c \in PkOf(table) \cap DOMAIN request.args :
               IntToStr(response.data[i][c]) = request.args[c]

\* The body carries no field that names a column.
NoKnownField(name, body) ==
    \/ body.kind # "object"
    \/ DOMAIN body.fields \cap ColumnNames(Tables[name]) = {}

C5_Step ==
    (/\ table \notin READ_ONLY
     /\ request'.method = "POST"
     /\ NoKnownField(table, request'.body))
    => /\ response'.status = 400
       /\ ~executed'
       /\ rows' = rows

\* C5: on a writable table a POST whose body has no field naming a column
\* (no body, a body that is no object, unknown names only) is answered 400,
\* executes no statement and leaves the rows as they were.
C5_PostWithoutKnownFieldIsBadRequest == [][C5_Step]_vars

C6_Step ==
    (/\ table \notin READ_ONLY
     /\ Tables[table].pk # <<>>
     /\ request'.method \in {"DELETE", "GET"})
    => /\ request'.method = "GET" => rows' = rows
       /\ (/\ request'.method = "DELETE"
           /\ PkOf(table) \subseteq DOMAIN request'.args
           /\ ~\E r \in DOMAIN rows : HasKey(table, r, request'.args))
          => response' = NotFound /\ rows' = rows
       /\ (request'.method = "DELETE" /\ response'.status = 200)
          => ~\E r \in DOMAIN rows' : HasKey(table, r, request'.args)

\* C6: on a writable table with a primary key, a DELETE of a key no row has is
\* answered 404 and changes nothing; a successful DELETE leaves no row with
\* its key; and a GET changes no row: so every repeat of a DELETE is 404.
C6_DeleteOfMissingKeyIsNotFound == [][C6_Step]_vars

\* A DELETE of a key no row has, on a table that still holds other rows.
C6_Witness ==
    /\ table \notin READ_ONLY
    /\ Len(Tables[table].pk) > 1
    /\ request.method = "DELETE"
    /\ PkOf(table) \subseteq DOMAIN request.args
    /\ response = NotFound
    /\ rows # <<>>

\* The parameters of a GET by the key of the row.
KeyArgs(name, row) == [c \in PkOf(name) |-> IntToStr(row[c])]

\* C7: after a successful POST on a table with a primary key the returned
\* row holds every known field of the body with its value and the schema's
\* default in every other column (no unknown field), and a GET by the row's
\* key, whatever other parameters it carries, returns exactly that row.
C7_RoundTrip ==
    (/\ request.method = "POST"
     /\ response.status = 201
     /\ Tables[table].pk # <<>>)
    => LET r == response.row
           sent == request.body.fields
           cols == ColumnNames(Tables[table])
       IN  /\ DOMAIN r = cols
           /\ \A c \in cols \cap DOMAIN sent : r[c] = sent[c]
           /\ \A c \in cols \ DOMAIN sent :
                r[c] = IF c \in Tables[table].serial THEN seq - 1 ELSE 0
           /\ \A extra \in Maps({Col_n, K_z, K_limit}, ArgVals) :
                handler(table, rows, seq,
                        Request("GET", KeyArgs(table, r) @@ extra, NoBody))
                = {Outcome(RowResponse(200, r), rows, seq, TRUE)}

\* A row was created with a default filled in and an unknown field dropped,
\* in a table that held another row with the same first key column.
C7_Witness ==
    /\ request.method = "POST"
    /\ response.status = 201
    /\ Len(Tables[table].pk) > 1
    /\ K_z \in DOMAIN request.body.fields \/ Col_n \notin DOMAIN request.body.fields
    /\ Size(rows) > 1

C8_Step ==
    table \notin READ_ONLY =>
       /\ (/\ request'.method \in {"PUT", "PATCH", "DELETE"}
           /\ ~(PkOf(table) \subseteq DOMAIN request'.args))
          => LET pk == Tables[table].pk
                 first == CHOOSE i \in 1..Len(pk) :
                             /\ pk[i] \notin DOMAIN request'.args
                             /\ \A j \in 1..(i - 1) : pk[j] \in DOMAIN request'.args
             IN  response' = MissingPk(pk[first])
       /\ (/\ request'.method \in {"PUT", "PATCH"}
           /\ PkOf(table) \subseteq DOMAIN request'.args
           /\ request'.body.kind \in {"none", "object"}
           /\ NoKnownField(table, request'.body))
          => response' = EmptyPayload
       /\ (\/ request' # NoRequest /\ response'.status = 400
           \/ /\ request'.method \in {"PUT", "PATCH"}
              /\ NoKnownField(table, request'.body))
          => ~executed' /\ rows' = rows

\* C8: on a writable table a PUT, PATCH or DELETE lacking a key column is
\* answered 400 naming the first missing column in primary-key order, before
\* the body is looked at; a PUT or PATCH with every key column and an empty
\* or unknown-only body is answered 400; and no request answered 400, nor any
\* PUT or PATCH whose body has no known field, executes a statement or
\* changes a row.
C8_MissingKeyIsBadRequest == [][C8_Step]_vars

\* A PUT lacking the second key column only, with an empty body, was told
\* which column is missing.
C8_Witness ==
    /\ request.method = "PUT"
    /\ Len(Tables[table].pk) > 1
    /\ Tables[table].pk[1] \in DOMAIN request.args
    /\ NoKnownField(table, request.body)
    /\ response = MissingPk(Tables[table].pk[2])

C10_Step ==
    /\ request'.method = "GET" => rows' = rows
    /\ (request'.method = "DELETE" /\ response'.status = 200)
       => \E r \in DOMAIN rows :
             HasKey(table, r, request'.args) /\ rows' = RemoveOne(rows, r)
    /\ (request'.method \in {"PUT", "PATCH"} /\ response'.status = 200)
       => \E r \in DOMAIN rows :
             /\ HasKey(table, r, request'.args)
             /\ rows' = AddRow(RemoveOne(rows, r), response'.row)

\* C10: for every table, with or without a primary key, a successful DELETE
\* removes exactly one row and a successful PUT or PATCH changes exactly one
\* row, the one with the key given; a GET changes no row.
C10_WritesTouchExactlyOneRow == [][C10_Step]_vars

(***************************************************************************)
(* List reads with ordering and pagination parameters.                     *)
(***************************************************************************)
\* No parameter, or the key with one of the values
Opt(key, vals) == {<<>>} \cup {key :> v : v \in vals}

OrderByVals == {Col_n, K_z, <<>>}
OrderDirVals == {W_asc, <<"A", "S", "C">>, W_desc, <<"D", "E", "S", "C">>, <<"x">>, <<>>}

ListArgs ==
    {a @@ b @@ c @@ d :
        a \in Opt(K_order_by, OrderByVals), b \in Opt(K_order_dir, OrderDirVals),
        c \in Opt(K_limit, {<<"1">>}), d \in Opt(K_offset, {<<"1">>, <<"x">>})}

ListRead == \E args \in ListArgs : Serve(Request("GET", args, NoBody))

NextList == ListRead \/ Respond

SpecList == Init /\ [][NextList]_vars

\* The list is in ascending / descending order of the column.
Ascending(data, col) ==
    \A i \in 1..(Len(data) - 1) : data[i][col] <= data[i + 1][col]
Descending(data, col) ==
    \A i \in 1..(Len(data) - 1) : data[i][col] >= data[i + 1][col]

\* The request names a real column to order by.
OrdersByColumn ==
    /\ K_order_by \in DOMAIN request.args
    /\ request.args[K_order_by] \in ColumnNames(Tables[table])

\* order_dir is given and reads w, whatever its case.
DirIs(w) ==
    /\ K_order_dir \in DOMAIN request.args
    /\ Lower(request.args[K_order_dir]) = w

\* C3, as stated: a list read ordered by a real column is ascending only when
\* order_dir reads "asc" in any case, and descending for every other
\* order_dir and when there is none.
C3_DescendingUnlessAsc ==
    (request.method = "GET" /\ response.kind = "list" /\ OrdersByColumn)
    => IF DirIs(W_asc) THEN Ascending(response.data, request.args[K_order_by])
       ELSE Descending(response.data, request.args[K_order_by])

\* C3, amended: a list read ordered by a real column is descending only when
\* order_dir is absent or reads "desc" in any case, and ascending for every
\* other order_dir, the empty string included; without an order_by naming a
\* real column no ordering is asked of the database.
C3_AscendingUnlessDesc ==
    (request.method = "GET" /\ response.kind = "list")
    => IF OrdersByColumn
       THEN IF K_order_dir \notin DOMAIN request.args \/ DirIs(W_desc)
            THEN Descending(response.data, request.args[K_order_by])
            ELSE Ascending(response.data, request.args[K_order_by])
       ELSE parse_order(Tables[table], request.args) = NoOrder

\* A list of two rows in strictly ascending order for an order_dir that is
\* neither "asc" nor "desc".
C3_Witness ==
    /\ request.method = "GET" /\ response.kind = "list" /\ OrdersByColumn
    /\ K_order_dir \in DOMAIN request.args
    /\ ~DirIs(W_asc) /\ ~DirIs(W_desc)
    /\ Len(response.data) = 2
    /\ response.data[1][Col_n] < response.data[2][Col_n]

(***************************************************************************)
(* cast_limit on its own: every limit string, default and maximum.         *)
(***************************************************************************)
LimitChars == {"-", "+", "_", " ", "1", "7", "a"}

RECURSIVE Strings(_, _)
Strings(chars, n) ==
    IF n = 0 THEN {<<>>}
    ELSE LET shorter == Strings(chars, n - 1)
         IN  shorter \cup {Append(s, c) : s \in shorter, c \in chars}

LimitInputs == {None} \cup Strings(LimitChars, MaxLen)
Defaults == {0, 2, 20}
Maxima == {1, 10}

InitPure ==
    /\ table = "items"
    /\ rows = <<>>
    /\ seq = 1
    /\ request = NoRequest
    /\ response = NoResponse
    /\ executed = FALSE
    /\ call = NoCall

\* The call returns to its caller.
Return ==
    /\ call # NoCall
    /\ call' = NoCall
    /\ UNCHANGED <<table, rows, seq, request, response, executed>>

CastLimit ==
    /\ call = NoCall
    /\ \E limit \in LimitInputs, default \in Defaults, max_limit \in Maxima :
         call' = [fn |-> "cast_limit", limit |-> limit, default |-> default,
                  max_limit |-> max_limit,
                  result |-> cast_limit(limit, default, max_limit)]
    /\ UNCHANGED <<table, rows, seq, request, response, executed>>

NextLimit == CastLimit \/ Return

SpecLimit == InitPure /\ [][NextLimit]_vars

\* C2: whatever the limit parameter, the default and the maximum, the
\* effective limit is the parsed value, or the default when the parameter is
\* absent or no integer, clamped to [1, maximum]; so it lies in [1, maximum].
C2_LimitIsClamped ==
    call.fn = "cast_limit"
    => LET parsed == IF call.limit = None THEN [ok |-> FALSE, val |-> 0]
                     ELSE ParseInt(call.limit)
           v == IF parsed.ok THEN parsed.val ELSE call.default
       IN  /\ call.result = Max(1, Min(v, call.max_limit))
           /\ 1 <= call.result /\ call.result <= call.max_limit

(***************************************************************************)
(* build_filters on its own: every table, every small parameter set.       *)
(***************************************************************************)
Suffixes == {S_gte, S_lte, S_like}

FilterKeys(name) ==
    LET bases == ColumnNames(Tables[name]) \cup {K_z, <<"w">>}
    IN  skip \cup bases \cup {b \o sfx : b \in bases, sfx \in Suffixes}

RECURSIVE ArgsUpTo(_, _)
ArgsUpTo(keys, n) ==
    IF n = 0 THEN {<<>>}
    ELSE LET fewer == ArgsUpTo(keys, n - 1)
         IN  fewer \cup {a @@ (k :> v) : a \in fewer, k \in keys, v \in ArgVals}

BuildFilters ==
    /\ call = NoCall
    /\ \E name \in DOMAIN Tables :
         \E args \in ArgsUpTo(FilterKeys(name), MaxKeys) :
            call' = [fn |-> "build_filters", table |-> name, args |-> args,
                     result |-> build_filters(Tables[name], args)]
    /\ UNCHANGED <<table, rows, seq, request, response, executed>>

NextFilter == BuildFilters \/ Return

SpecFilter == InitPure /\ [][NextFilter]_vars

\* The key is base + suffix for a column base.
Suffixed(name, key, sfx) ==
    /\ Len(key) >= Len(sfx)
    /\ \E base \in ColumnNames(Tables[name]) : key = base \o sfx

\* The key ends in one of the three suffixes.
HasSuffix(key) ==
    \E sfx \in Suffixes :
        /\ Len(key) >= Len(sfx)
        /\ SubSeq(key, Len(key) - Len(sfx) + 1, Len(key)) = sfx

\* The clauses the claim gives the parameters of a list read.
ExpectedClauses(name, args) ==
    LET keys == {k \in DOMAIN args : k \notin skip /\ k \notin PkOf(name)}
        strip(k, sfx) == SubSeq(k, 1, Len(k) - Len(sfx))
    IN  {Clause(strip(k, S_gte), ">=", args[k]) : k \in {x \in keys : Suffixed(name, x, S_gte)}}
        \cup {Clause(strip(k, S_lte), "<=", args[k]) : k \in {x \in keys : Suffixed(name, x, S_lte)}}
        \cup {Clause(strip(k, S_like), "ilike", args[k]) : k \in {x \in keys : Suffixed(name, x, S_like)}}
        \cup {Clause(k, "==", args[k]) :
                k \in {x \in keys : ~HasSuffix(x) /\ x \in ColumnNames(Tables[name])}}

====
